---- MODULE Spec2Model ----
(***************************************************************************)
(* Model of poem's Tera templating adapter (poem/src/tera/middleware.rs)   *)
(* and of the example application that uses it                            *)
(* (examples/poem/tera-templating/src/main.rs).                           *)
(*                                                                         *)
(* The process first builds its application on the main thread            *)
(* (constructors, Middleware::transform, using), then serves requests.    *)
(* Each request is one task running TeraTemplatingEndpoint::call for every *)
(* endpoint wrapped around the handler, then the handler (the Tera         *)
(* extractor and render), then IntoResult::into_result.  Tasks interleave  *)
(* statement by statement.  Tera values live in a heap of locations so     *)
(* that sharing and copying are distinguishable.                          *)
(***************************************************************************)
EXTENDS Integers, Sequences, FiniteSets, TLC

\* ---------------------------------------------------------------- bounds
NumRequests == 2
MaxTransformers == 2
MaxDepth == 2

Requests == 1..NumRequests

\* ------------------------------------------------------- external inputs
\* Globs and directories the application may pass to the constructors.
Globs == {"templates/**/*", "broken/**/*"}
Dirs == {"templates", "broken"}
\* Template sets the application may hand to custom().
CustomSets == {{"other.html.tera"}}
\* The path parameter of a request; NoName is a context without the variable.
NoName == "<none>"
Names == {"ann", NoName}
\* hello uses the Tera extractor; plain is a handler that does not.
Handlers == {"hello", "plain"}

NullAddr == <<"null", 0, 0>>
NoResult == [tag |-> "None", body |-> <<>>, err |-> ""]
NoResponse == [tag |-> "None", html |-> <<>>, err |-> ""]

VARIABLES
    phase,        \* "setup", "serving" or "exited"
    exitStatus,   \* -1 while the process runs, else its exit status
    stdout,       \* lines printed with println!
    heap,         \* location -> Tera value
    mw,           \* location of the current TeraTemplatingMiddleware's tera, or NullAddr
    chain,        \* the endpoints wrapped around the handler, outermost first
    handler,      \* the handler of the route
    pc,           \* per request: position of its task
    name,         \* per request: the path parameter
    layer,        \* per request: index in chain of the endpoint being called
    local,        \* per request: location of `tera` in call()
    idx,          \* per request: position of the for loop in call()
    ext,          \* per request: location held by the Tera slot of req.extensions
    marks,        \* per request: mutations the transformers made to the request
    got,          \* per request: location of the Tera the handler received
    result,       \* per request: what the handler returned
    response,     \* per request: what into_result returned
    trace         \* per request: the steps taken on its behalf, in order

vars == <<phase, exitStatus, stdout, heap, mw, chain, handler, pc, name, layer,
          local, idx, ext, marks, got, result, response, trace>>

setupVars == <<phase, exitStatus, stdout, mw, chain, handler>>
reqVars == <<pc, name, layer, local, idx, ext, marks, got, result, response, trace>>

\* ------------------------------------------------------------ Tera values
\* The engine, reduced to what the adapter can observe: the names of the
\* parsed templates and the registrations made on the instance afterwards.
TeraValue(templates) == [templates |-> templates, filters |-> <<>>]

\* Tera::new(glob): the template files on disk parse under templates/ and
\* do not under broken/.
TeraNew(glob) ==
    IF glob = "templates/**/*"
    THEN [tag |-> "Ok", tera |-> TeraValue({"index.html.tera"}), err |-> ""]
    ELSE [tag |-> "Err", tera |-> TeraValue({}), err |-> "parse " \o glob]

\* Tera::clone: the copy lives at a location of its own ...
CloneAddr(src, fresh) == fresh

\* ... and holds the value of the original.
CloneHeap(h, src, dst) ==
    [a \in DOMAIN h \cup {dst} |-> IF a = dst THEN h[src] ELSE h[a]]

Store(h, a, v) == [b \in DOMAIN h \cup {a} |-> IF b = a THEN v ELSE h[b]]

\* tera.render("index.html.tera", &ctx!{ "name": &name })
Render(t, n) ==
    IF "index.html.tera" \notin t.templates
    THEN [tag |-> "Err", body |-> <<>>, err |-> "TemplateNotFound"]
    ELSE IF n = NoName
    THEN [tag |-> "Err", body |-> <<>>, err |-> "MissingVariable"]
    ELSE [tag |-> "Ok", body |-> <<"index.html.tera", n, t.filters>>, err |-> ""]

Init ==
    /\ phase = "setup"
    /\ exitStatus = -1
    /\ stdout = <<>>
    /\ heap = <<>>
    /\ mw = NullAddr
    /\ chain = <<>>
    /\ handler = "hello"
    /\ pc = [r \in Requests |-> "idle"]
    /\ name = [r \in Requests |-> NoName]
    /\ layer = [r \in Requests |-> 0]
    /\ local = [r \in Requests |-> NullAddr]
    /\ idx = [r \in Requests |-> 0]
    /\ ext = [r \in Requests |-> NullAddr]
    /\ marks = [r \in Requests |-> <<>>]
    /\ got = [r \in Requests |-> NullAddr]
    /\ result = [r \in Requests |-> NoResult]
    /\ response = [r \in Requests |-> NoResponse]
    /\ trace = [r \in Requests |-> <<>>]

\* ------------------------------------------------------------- startup
MwAddr == <<"mw", 0, 0>>

\* from_glob: the parsed set, or print and exit(1).
FromGlobStepContinue(glob) ==
    LET parsed == TeraNew(glob) IN
    /\ heap' = Store(heap, MwAddr, parsed.tera)
    /\ mw' = MwAddr
    /\ stdout' = IF parsed.tag = "Ok" THEN stdout
                 ELSE Append(stdout, "Parsing error(s): " \o parsed.err)
    /\ UNCHANGED <<phase, exitStatus>>

FromGlobStep(glob) ==
    LET parsed == TeraNew(glob) IN
    IF parsed.tag = "Ok"
    THEN /\ heap' = Store(heap, MwAddr, parsed.tera)
         /\ mw' = MwAddr
         /\ UNCHANGED <<phase, exitStatus, stdout>>
    ELSE /\ stdout' = Append(stdout, "Parsing error(s): " \o parsed.err)
         /\ exitStatus' = 1
         /\ phase' = "exited"
         /\ UNCHANGED <<heap, mw>>

FromGlob(glob) ==
    /\ phase = "setup"
    /\ Len(chain) < MaxDepth
    /\ FromGlobStep(glob)
    /\ UNCHANGED <<chain, handler>>
    /\ UNCHANGED reqVars

\* from_directory: from_glob on "{template_directory}/**/*".
FromDirectory(template_directory) ==
    /\ phase = "setup"
    /\ Len(chain) < MaxDepth
    /\ FromGlobStep(template_directory \o "/**/*")
    /\ UNCHANGED <<chain, handler>>
    /\ UNCHANGED reqVars

\* Default::default
Default ==
    /\ phase = "setup"
    /\ Len(chain) < MaxDepth
    /\ FromGlobStep("templates" \o "/**/*")
    /\ UNCHANGED <<chain, handler>>
    /\ UNCHANGED reqVars

\* custom(tera): no parsing, no failure.
Custom(templates) ==
    /\ phase = "setup"
    /\ Len(chain) < MaxDepth
    /\ heap' = Store(heap, MwAddr, TeraValue(templates))
    /\ mw' = MwAddr
    /\ UNCHANGED <<phase, exitStatus, stdout, chain, handler>>
    /\ UNCHANGED reqVars

\* The location of the tera field of the n-th endpoint built (1 = innermost).
EpAddr(n) == <<"ep", n, 0>>

\* Middleware::transform: a new endpoint around the current application,
\* holding a clone of the middleware's tera and no transformers.
NewEndpoint(src, fresh) == [tera |-> CloneAddr(src, fresh), transformers |-> <<>>]

Transform ==
    /\ phase = "setup"
    /\ mw # NullAddr
    /\ Len(chain) < MaxDepth
    /\ LET e == NewEndpoint(mw, EpAddr(Len(chain) + 1)) IN
        /\ heap' = CloneHeap(heap, mw, e.tera)
        /\ chain' = <<e>> \o chain
    /\ UNCHANGED <<phase, exitStatus, stdout, mw, handler>>
    /\ UNCHANGED reqVars

RECURSIVE CountTransformers(_)
CountTransformers(c) ==
    IF c = <<>> THEN 0 ELSE Len(Head(c).transformers) + CountTransformers(Tail(c))

\* using(transformer): push onto the endpoint's transformer list.
PushFront(list, transformer) == <<transformer>> \o list
Push(list, transformer) == Append(list, transformer)

\* The application calls using() on the endpoint it has just built, the
\* outermost one; each call registers a distinct function, named by its rank.
Using ==
    /\ phase = "setup"
    /\ chain # <<>>
    /\ CountTransformers(chain) < MaxTransformers
    /\ chain' = [chain EXCEPT ![1].transformers =
                    Push(@, CountTransformers(chain) + 1)]
    /\ UNCHANGED <<phase, exitStatus, stdout, heap, mw, handler>>
    /\ UNCHANGED reqVars

\* Server::run(app), main.rs lines 17-23: the route's handler is h; the
\* middleware values were moved into with() and are gone by now.
Drop(h, a) == [b \in DOMAIN h \ {a} |-> h[b]]

Serve(h) ==
    /\ phase = "setup"
    /\ phase' = "serving"
    /\ handler' = h
    /\ mw' = NullAddr
    /\ heap' = Drop(heap, MwAddr)
    /\ UNCHANGED <<exitStatus, stdout, chain>>
    /\ UNCHANGED reqVars

\* ------------------------------------------------------------- requests
\* What transformer k does to the template copy and to the request it is
\* given: it registers a filter named after itself and the request, and
\* leaves its mark on the request.
TransformTera(k, t, r) == [t EXCEPT !.filters = Append(@, <<k, r>>)]
TransformReq(k, m) == Append(m, k)

\* Where the task goes once an endpoint at position l hands over to its inner.
AfterLayer(l) == IF l < Len(chain) THEN "call" ELSE "handler"

\* A request reaches the application: the outermost endpoint's call(), or
\* the handler when no endpoint wraps it.
Arrive(r) ==
    /\ phase = "serving"
    /\ pc[r] = "idle"
    /\ layer' = [layer EXCEPT ![r] = IF chain = <<>> THEN 0 ELSE 1]
    /\ pc' = [pc EXCEPT ![r] = AfterLayer(0)]
    /\ UNCHANGED <<heap, name, local, idx, ext, marks, got, result, response, trace>>
    /\ UNCHANGED setupVars

\* call(), line 108: let mut tera = self.tera.clone(); a local of this
\* invocation of call(), one per request and endpoint.
ReqAddrShared(r, l) == <<"req", 0, l>>
ReqAddr(r, l) == <<"req", r, l>>

CallLocalTeraShared(self_tera, fresh) == self_tera
CallLocalTera(self_tera, fresh) == CloneAddr(self_tera, fresh)

CallClone(r) ==
    /\ phase = "serving"
    /\ pc[r] = "call"
    /\ LET src == chain[layer[r]].tera
           dst == CallLocalTera(src, ReqAddr(r, layer[r])) IN
        /\ heap' = CloneHeap(heap, src, dst)
        /\ local' = [local EXCEPT ![r] = dst]
    /\ idx' = [idx EXCEPT ![r] = 1]
    /\ pc' = [pc EXCEPT ![r] = "loop"]
    /\ trace' = [trace EXCEPT ![r] = Append(@, <<"clone", layer[r], 0>>)]
    /\ UNCHANGED <<name, layer, ext, marks, got, result, response>>
    /\ UNCHANGED setupVars

\* call(), lines 110-112: one iteration of the loop over self.transformers.
NextTransformerReversed(list, i) == list[Len(list) + 1 - i]
NextTransformer(list, i) == list[i]

CallTransformer(r) ==
    /\ phase = "serving"
    /\ pc[r] = "loop"
    /\ idx[r] <= Len(chain[layer[r]].transformers)
    /\ LET k == NextTransformer(chain[layer[r]].transformers, idx[r]) IN
        /\ heap' = Store(heap, local[r], TransformTera(k, heap[local[r]], r))
        /\ marks' = [marks EXCEPT ![r] = TransformReq(k, @)]
        /\ trace' = [trace EXCEPT ![r] = Append(@, <<"transformer", layer[r], k>>)]
    /\ idx' = [idx EXCEPT ![r] = @ + 1]
    /\ UNCHANGED <<pc, name, layer, local, ext, got, result, response>>
    /\ UNCHANGED setupVars

\* call(), line 114: req.extensions_mut().insert(tera); the slot holds one
\* value per type, so a value already there is replaced.
InsertKeepFirst(slot, tera) == IF slot = NullAddr THEN tera ELSE slot
Insert(slot, tera) == tera

CallInsert(r) ==
    /\ phase = "serving"
    /\ pc[r] = "loop"
    /\ idx[r] > Len(chain[layer[r]].transformers)
    /\ ext' = [ext EXCEPT ![r] = Insert(@, local[r])]
    /\ pc' = [pc EXCEPT ![r] = "inner"]
    /\ trace' = [trace EXCEPT ![r] = Append(@, <<"insert", layer[r], 0>>)]
    /\ UNCHANGED <<heap, name, layer, local, idx, marks, got, result, response>>
    /\ UNCHANGED setupVars

\* call(), line 116: self.inner.call(req).await
CallInner(r) ==
    /\ phase = "serving"
    /\ pc[r] = "inner"
    /\ pc' = [pc EXCEPT ![r] = AfterLayer(layer[r])]
    /\ layer' = [layer EXCEPT ![r] = IF layer[r] < Len(chain) THEN @ + 1 ELSE @]
    /\ trace' = [trace EXCEPT ![r] = Append(@, <<"inner", layer[r], 0>>)]
    /\ UNCHANGED <<heap, name, local, idx, ext, marks, got, result, response>>
    /\ UNCHANGED setupVars

\* from_request: the value in the slot, cloned; expect() panics when there
\* is none.
ExtAddr(r) == <<"ext", r, 0>>

ExtractedTeraShared(slot, fresh) == slot
ExtractedTera(slot, fresh) == CloneAddr(slot, fresh)

ExtractOutcomeErr(slot) == IF slot = NullAddr THEN "rejected" ELSE "render"
ExtractOutcome(slot) == IF slot = NullAddr THEN "panicked" ELSE "render"

FromRequest(r) ==
    /\ phase = "serving"
    /\ pc[r] = "handler"
    /\ handler = "hello"
    /\ IF ext[r] = NullAddr
       THEN /\ pc' = [pc EXCEPT ![r] = ExtractOutcome(ext[r])]
            /\ UNCHANGED <<heap, got, trace>>
       ELSE LET dst == ExtractedTera(ext[r], ExtAddr(r)) IN
            /\ heap' = CloneHeap(heap, ext[r], dst)
            /\ got' = [got EXCEPT ![r] = dst]
            /\ pc' = [pc EXCEPT ![r] = ExtractOutcome(ext[r])]
            /\ trace' = [trace EXCEPT ![r] = Append(@, <<"extract", 0, 0>>)]
    /\ UNCHANGED <<name, layer, local, idx, ext, marks, result, response>>
    /\ UNCHANGED setupVars

\* hello, main.rs lines 11-12: the Path extractor yields the request's path
\* parameter n, and the body renders with it.
HandlerRender(r, n) ==
    /\ phase = "serving"
    /\ pc[r] = "render"
    /\ name' = [name EXCEPT ![r] = n]
    /\ result' = [result EXCEPT ![r] = Render(heap[got[r]], n)]
    /\ pc' = [pc EXCEPT ![r] = "returned"]
    /\ UNCHANGED <<heap, layer, local, idx, ext, marks, got, response, trace>>
    /\ UNCHANGED setupVars

\* A handler that takes no Tera argument and returns a rendered string.
HandlerPlain(r) ==
    /\ phase = "serving"
    /\ pc[r] = "handler"
    /\ handler = "plain"
    /\ result' = [result EXCEPT ![r] = [tag |-> "Ok", body |-> <<"plain">>, err |-> ""]]
    /\ pc' = [pc EXCEPT ![r] = "returned"]
    /\ UNCHANGED <<heap, name, layer, local, idx, ext, marks, got, response, trace>>
    /\ UNCHANGED setupVars

\* into_result: Err is printed with {:?}; then map_err(InternalServerError)
\* and map(Html).
DebugFormat(e) == "Msg(" \o e \o ")"

IntoResultLogAlways(res) == <<DebugFormat(res.err)>>
IntoResultLog(res) == IF res.tag = "Err" THEN <<DebugFormat(res.err)>> ELSE <<>>

IntoResultSwallow(res) == [tag |-> "Html", html |-> res.body, err |-> ""]
IntoResult(res) ==
    IF res.tag = "Ok"
    THEN [tag |-> "Html", html |-> res.body, err |-> ""]
    ELSE [tag |-> "InternalServerError", html |-> <<>>, err |-> res.err]

IntoResultStep(r) ==
    /\ phase = "serving"
    /\ pc[r] = "returned"
    /\ stdout' = stdout \o IntoResultLog(result[r])
    /\ response' = [response EXCEPT ![r] = IntoResult(result[r])]
    /\ pc' = [pc EXCEPT ![r] = "done"]
    /\ UNCHANGED <<phase, exitStatus, heap, mw, chain, handler>>
    /\ UNCHANGED <<name, layer, local, idx, ext, marks, got, result, trace>>

\* The status line of the HTTP response the framework builds from what
\* into_result returned.
ResponseStatus(resp) ==
    IF resp.tag = "Html" THEN 200
    ELSE IF resp.tag = "InternalServerError" THEN 500
    ELSE 0

Next ==
    \/ \E g \in Globs : FromGlob(g)
    \/ \E d \in Dirs : FromDirectory(d)
    \/ Default
    \/ \E t \in CustomSets : Custom(t)
    \/ Transform
    \/ Using
    \/ \E h \in Handlers : Serve(h)
    \/ \E r \in Requests : Arrive(r)
    \/ \E r \in Requests : CallClone(r)
    \/ \E r \in Requests : CallTransformer(r)
    \/ \E r \in Requests : CallInsert(r)
    \/ \E r \in Requests : CallInner(r)
    \/ \E r \in Requests : FromRequest(r)
    \/ \E r \in Requests, n \in Names : HandlerRender(r, n)
    \/ \E r \in Requests : HandlerPlain(r)
    \/ \E r \in Requests : IntoResultStep(r)

Spec == Init /\ [][Next]_vars

\* ------------------------------------------------------------ properties
\* Positions of a task whose handler has received its Tera value.
Received == {"render", "returned", "done"}
\* Positions of a task that has left every call() prefix behind.
PastCalls == {"handler", "render", "returned", "done", "panicked"}

Innermost == chain[Len(chain)]

\* The registrations endpoint e's transformers make for request r.
OwnFilters(e, r) == [i \in 1..Len(e.transformers) |-> <<e.transformers[i], r>>]

\* The template set endpoint e hands to request r: its own set with its
\* transformers applied on behalf of r, in registration order.
EndpointTera(e, r) ==
    [templates |-> heap[e.tera].templates, filters |-> OwnFilters(e, r)]

\* The marks all endpoints' transformers leave on a request, outermost first.
RECURSIVE AllMarks(_)
AllMarks(c) == IF c = <<>> THEN <<>> ELSE Head(c).transformers \o AllMarks(Tail(c))

\* The steps of call() on the endpoints from position l inwards.
RECURSIVE CallSteps(_)
CallSteps(l) ==
    IF l > Len(chain) THEN <<>>
    ELSE <<<<"clone", l, 0>>>>
         \o [i \in 1..Len(chain[l].transformers) |->
                <<"transformer", l, chain[l].transformers[i]>>]
         \o <<<<"insert", l, 0>>, <<"inner", l, 0>>>>
         \o CallSteps(l + 1)

IsPrefix(s, t) == Len(s) <= Len(t) /\ s = SubSeq(t, 1, Len(s))

\* What the route's handler returns for request r when r is handled alone.
OwnResult(r) ==
    IF handler = "hello"
    THEN Render(EndpointTera(Innermost, r), name[r])
    ELSE [tag |-> "Ok", body |-> <<"plain">>, err |-> ""]

Failed == {r \in Requests : pc[r] = "done" /\ result[r].tag = "Err"}

\* The copies of a template set made on behalf of request r.
CopiesFor(r) == {a \in DOMAIN heap : a[1] \in {"req", "ext"} /\ a[2] = r}

ParseErrorLines == {"Parsing error(s): " \o TeraNew(g).err : g \in {h \in Globs : TeraNew(h).tag = "Err"}}

\* C1: every template set held on behalf of a request (the local of call(),
\* the value in the request's slot, the value its handler extracted) carries
\* only the registrations made by that request's own transformer runs, under
\* every interleaving of the requests.
C1_NoCrossRequestMutation ==
    \A r \in Requests : \A a \in {local[r], ext[r], got[r]} \ {NullAddr} :
        \A i \in 1..Len(heap[a].filters) : heap[a].filters[i][2] = r

\* Two requests in flight at once: one has extracted a mutated set while the
\* other is in the middle of its transformer loop, having mutated its own.
C1_Witness ==
    \E r1, r2 \in Requests :
        /\ r1 # r2
        /\ pc[r1] = "render" /\ heap[got[r1]].filters # <<>>
        /\ pc[r2] = "loop" /\ idx[r2] > 1

\* C2: a parse-error line on standard output means the process has exited,
\* with status 1, having printed nothing else, with the failed constructor
\* the last thing it did: no request was ever taken up; and a process that
\* serves has printed no parse error and has no exit status.
C2_ParseFailureExits ==
    /\ (\E i \in 1..Len(stdout) : stdout[i] \in ParseErrorLines) <=> phase = "exited"
    /\ phase = "exited" =>
        /\ exitStatus = 1
        /\ Len(stdout) = 1
        /\ \A r \in Requests : pc[r] = "idle" /\ response[r] = NoResponse
    /\ phase # "exited" => exitStatus = -1

\* A constructor failed after a first endpoint had been built.
C2_Witness == phase = "exited" /\ Len(chain) = 1 /\ stdout # <<>>

\* C3: a request whose render succeeded is answered with Html of exactly
\* the rendered body, status 200, and while no request has failed nothing has
\* been printed.
C3_RenderOkIsHtml ==
    /\ \A r \in Requests :
        (pc[r] = "done" /\ result[r].tag = "Ok") =>
            /\ response[r].tag = "Html"
            /\ response[r].html = result[r].body
            /\ ResponseStatus(response[r]) = 200
    /\ (phase = "serving" /\ Failed = {}) => stdout = <<>>

C3_Witness ==
    \E r \in Requests :
        /\ pc[r] = "done" /\ handler = "hello"
        /\ response[r].tag = "Html"
        /\ response[r].html = <<"index.html.tera", "ann", <<<<1, r>>>>>>

\* C4: a request whose render failed is answered with an internal server
\* error carrying the render error, status 500, never with Html; each such
\* request has printed its error once and nothing else is printed; the
\* process keeps serving.
C4_RenderErrIs500 ==
    /\ \A r \in Failed :
        /\ response[r].tag = "InternalServerError"
        /\ response[r].err = result[r].err
        /\ ResponseStatus(response[r]) = 500
        /\ phase = "serving" /\ exitStatus = -1
    /\ phase = "serving" =>
        /\ Len(stdout) = Cardinality(Failed)
        /\ \A e \in {"TemplateNotFound", "MissingVariable"} :
            Cardinality({i \in 1..Len(stdout) : stdout[i] = DebugFormat(e)})
                = Cardinality({r \in Failed : result[r].err = e})

C4_Witness ==
    \E r \in Requests :
        /\ pc[r] = "done"
        /\ result[r].err = "MissingVariable"
        /\ ResponseStatus(response[r]) = 500
        /\ stdout = <<"Msg(MissingVariable)">>

\* C5: whatever the other requests did, failed or not, a request that has
\* received its template set holds the set it would hold when handled alone,
\* and a finished request has the response it would have when handled alone;
\* a failed render gives its own request status 500.
C5_FailureIsolated ==
    \A r \in Requests :
        /\ (pc[r] \in Received /\ handler = "hello") =>
                heap[got[r]] = EndpointTera(Innermost, r)
        /\ pc[r] = "done" =>
            /\ response[r] = IntoResult(OwnResult(r))
            /\ (r \in Failed => ResponseStatus(response[r]) = 500)

\* One request failed and was answered 500, another, finished after it with
\* transformers having run for both, was answered 200.
C5_Witness ==
    \E r1, r2 \in Requests :
        /\ r1 # r2
        /\ pc[r1] = "done" /\ ResponseStatus(response[r1]) = 500
        /\ pc[r2] = "done" /\ ResponseStatus(response[r2]) = 200
        /\ marks[r1] # <<>> /\ marks[r2] # <<>>

\* C6: no step changes the template set held by an endpoint, once built;
\* no step while serving changes an endpoint's transformer list; and
\* Middleware::transform (the step that adds an endpoint) leaves the
\* middleware and its template set as they were.
C6_NoCrossRequestState ==
    [][/\ \A a \in DOMAIN heap : a[1] = "ep" => (a \in DOMAIN heap' /\ heap'[a] = heap[a])
       /\ phase = "serving" => chain' = chain
       /\ Len(chain') > Len(chain) => (mw' = mw /\ heap'[mw] = heap[mw])
      ]_vars

\* A request has finished with its copy mutated, and the next request has
\* just been given its copy: an unmutated one.
C6_Witness ==
    \E r1, r2 \in Requests :
        /\ pc[r1] = "done" /\ local[r1] # NullAddr /\ heap[local[r1]].filters # <<>>
        /\ pc[r2] = "loop" /\ idx[r2] = 1 /\ heap[local[r2]].filters = <<>>

\* C7 as stated: with one endpoint, once the handler runs (and has its Tera
\* value when it asks for one), exactly one copy of the template set has
\* been made for the request.
C7_OneCopyPerRequest ==
    \A r \in Requests :
        (Len(chain) = 1 /\ pc[r] \in Received) => Cardinality(CopiesFor(r)) = 1

\* C7, amended: each call() a request has gone through has made exactly one
\* copy, of its endpoint's set, however many transformers are registered,
\* and the Tera extractor makes one further copy, of the set in the
\* request's slot: a handler that uses the extractor has cost one copy per
\* endpoint plus one, a handler that does not, one copy per endpoint.
C7_OneCopyPerCallPlusExtractor ==
    \A r \in Requests :
        /\ pc[r] \in PastCalls =>
            {a \in CopiesFor(r) : a[1] = "req"} = {ReqAddr(r, l) : l \in 1..Len(chain)}
        /\ {a \in CopiesFor(r) : a[1] = "ext"} =
            (IF pc[r] \in Received /\ handler = "hello" THEN {ExtAddr(r)} ELSE {})
        /\ pc[r] \in Received =>
            Cardinality(CopiesFor(r)) = Len(chain) + (IF handler = "hello" THEN 1 ELSE 0)

\* One endpoint with two transformers, a handler that uses the extractor:
\* two copies.
C7_Witness ==
    \E r \in Requests :
        /\ Len(chain) = 1 /\ Len(chain[1].transformers) = 2
        /\ pc[r] = "render"
        /\ Cardinality(CopiesFor(r)) = 2

\* C8: the steps taken for a request are, at every moment, a prefix of:
\* for each endpoint from the outermost in, clone, every transformer once in
\* registration order, insert, inner call; then the handler.  Once the
\* handler is reached all of them have been taken and the request carries
\* every transformer's mark, in that order.
C8_CallOrder ==
    \A r \in Requests :
        /\ IsPrefix(trace[r], CallSteps(1) \o <<<<"extract", 0, 0>>>>)
        /\ pc[r] \in PastCalls =>
            /\ IsPrefix(CallSteps(1), trace[r])
            /\ marks[r] = AllMarks(chain)

\* A handler reached through an endpoint with two transformers.
C8_Witness ==
    \E r \in Requests :
        /\ pc[r] = "handler"
        /\ \E l \in 1..Len(chain) : Len(chain[l].transformers) = 2

\* C9: the extractor returns a copy of what is in the request's slot, which
\* is still the value the innermost call() inserted: that endpoint's set
\* with its transformers applied; with no endpoint around the handler the
\* extractor panics: the task ends without a result or a response.
C9_ExtractorReturnsSlot ==
    \A r \in Requests :
        /\ (pc[r] \in Received /\ handler = "hello") =>
            /\ chain # <<>>
            /\ ext[r] = local[r]
            /\ heap[got[r]] = heap[ext[r]]
            /\ heap[ext[r]] = EndpointTera(Innermost, r)
        /\ (handler = "hello" /\ chain = <<>> /\ pc[r] \notin {"idle", "handler"}) =>
            /\ pc[r] = "panicked"
            /\ result[r] = NoResult /\ response[r] = NoResponse

\* No endpoint, a handler that asks for Tera: a panic; meanwhile the process
\* takes up another request.
C9_Witness ==
    \E r1, r2 \in Requests :
        /\ r1 # r2
        /\ pc[r1] = "panicked"
        /\ pc[r2] = "handler"

\* C10: with nested endpoints the handler extracts the innermost endpoint's
\* set with the innermost endpoint's transformers applied and nothing of the
\* outer endpoints' copies, while the request carries the marks of the outer
\* transformers as well.
C10_InnermostWins ==
    \A r \in Requests :
        (Len(chain) >= 2 /\ pc[r] \in Received /\ handler = "hello") =>
            /\ ext[r] = ReqAddr(r, Len(chain))
            /\ heap[got[r]].templates = heap[Innermost.tera].templates
            /\ heap[got[r]].filters = OwnFilters(Innermost, r)
            /\ marks[r] = AllMarks(chain)
            /\ \A l \in 1..(Len(chain) - 1) :
                \A i \in 1..Len(chain[l].transformers) :
                    /\ <<chain[l].transformers[i], r>> \in
                            {heap[ReqAddr(r, l)].filters[j] :
                                j \in 1..Len(heap[ReqAddr(r, l)].filters)}
                    /\ <<chain[l].transformers[i], r>> \notin
                            {heap[got[r]].filters[j] : j \in 1..Len(heap[got[r]].filters)}
                    /\ \E j \in 1..Len(marks[r]) : marks[r][j] = chain[l].transformers[i]

\* Two nested endpoints with different sets, each with a transformer.
C10_Witness ==
    \E r \in Requests :
        /\ Len(chain) = 2 /\ pc[r] = "render"
        /\ chain[1].transformers # <<>> /\ chain[2].transformers # <<>>
        /\ heap[chain[1].tera].templates # heap[chain[2].tera].templates
====
